---- MODULE Spec2Model ----
(***************************************************************************)
(* The delimited-text tokenizer of astropy/io/ascii/src/tokenizer.c as a   *)
(* state machine.  One step of the model is one iteration of the main loop *)
(* of tokenize(); the call itself (set-up) and the loop exit are steps of  *)
(* their own.  Bytes are modelled as distinct symbols (strings): the code  *)
(* only ever compares bytes for equality.                                  *)
(*                                                                         *)
(* Column j of the code (0-based) is index j + 1 of output_cols, col_ptrs  *)
(* and output_len here; col_ptrs[i] is the offset col_ptrs[i] -            *)
(* output_cols[i] of the code; offset k of a buffer is index k + 1.        *)
(*                                                                         *)
(* Undefined behaviour.  Two accesses of the code leave the allocated      *)
(* objects: END_FIELD's right-strip reads the byte before the column       *)
(* buffer when it reaches offset 0, and PUSH / END_FIELD index col_ptrs,    *)
(* output_cols and output_len with col >= num_cols.  A step that does      *)
(* either is marked (oob, ub) and has two outcomes: the access touches no  *)
(* object of the tokenizer and the step goes on as the code reads, or the  *)
(* program faults (pc = "fault").                                          *)
(***************************************************************************)
EXTENDS Integers, Sequences, FiniteSets, TLC

\* ---------------------------------------------------------------- bytes
NUL == "NUL"
SOH == "SOH"
TAB == "TAB"
LF == "LF"
CR == "CR"
SP == "SP"
COMMA == "COMMA"
HASH == "HASH"
QUOTE == "QUOTE"
LETTER == "a"
ONE == "1"
NINE == "9"
MINUS == "-"
PLUS == "+"
DOT == "."
UPPER_E == "E"
LOWER_E == "e"

\* c == ' ' || c == '\t'
WS == {SP, TAB}

\* ---------------------------------------------------------------- bounds
\* longest input
MaxLen == 3
\* largest num_cols argument
MaxCols == 2
\* largest row limit (end argument) besides -1 and 0
MaxEnd == 1
\* longest field and most fields of a joined line (SpecLine)
MaxField == 2
MaxFields == 2
\* longest first and second line of a two-line input (SpecTwoLines)
MaxFirst == 4
MaxSecond == 1
\* longest input and largest offset of a skip_lines call (SpecSkip)
MaxSkipLen == 4
MaxOffset == 2
\* longest string of a first conversion and of the conversion after it
\* (SpecNum)
MaxNumLen == 5
MaxNextLen == 1
\* INITIAL_COL_SIZE of tokenizer.h (50 there), scaled down so that inputs of
\* MaxLen bytes fill a column and make it grow
INITIAL_COL_SIZE == 2

\* the input bytes the model draws from
Alphabet == {LETTER, COMMA, SP, LF, CR, QUOTE, HASH}

\* ---------------------------------------------------------------- codes, states
NO_ERROR == "NO_ERROR"
INVALID_LINE == "INVALID_LINE"
TOO_MANY_COLS == "TOO_MANY_COLS"
NOT_ENOUGH_COLS == "NOT_ENOUGH_COLS"
CONVERSION_ERROR == "CONVERSION_ERROR"
OVERFLOW_ERROR == "OVERFLOW_ERROR"

\* <errno.h>, <float.h>
ERANGE == 34
DBL_MIN_EXP == -1021
DBL_MAX_EXP == 1024
DBL_MAX_10_EXP == 308

START_LINE == "START_LINE"
START_FIELD == "START_FIELD"
START_QUOTED_FIELD == "START_QUOTED_FIELD"
FIELD == "FIELD"
QUOTED_FIELD == "QUOTED_FIELD"
QUOTED_FIELD_NEWLINE == "QUOTED_FIELD_NEWLINE"
COMMENT == "COMMENT"
CARRIAGE_RETURN == "CARRIAGE_RETURN"

\* the value of a pointer that was declared and never assigned (offsets
\* into a string are >= 0)
UNSET == -1

VARIABLES
    \* tokenizer_t
    source, source_pos, delimiter, comment, quotechar,
    fill_extra_cols, strip_whitespace_lines, strip_whitespace_fields,
    use_fast_converter,
    output_cols, col_ptrs, output_len, num_cols, num_rows, state, code,
    \* arguments and locals of tokenize()
    end, header, col, old_state, parse_newline, whitespace,
    \* control: where the program is, and the value tokenize returned
    pc, ret,
    \* history: out-of-bounds access in the last step / kinds so far in this
    \* call, number of tokenize calls, cursor at the call and at its return,
    \* result of the previous call
    oob, ub, calls, start_pos, stop_pos, prev,
    \* argument and locals of skip_lines()
    offset, skip_i, signif_chars, in_comment,
    \* argument and end pointer (tmp) of str_to_double(), the C library's
    \* errno, and
    \* history: the code the last conversion assigned ("none" if none)
    str, endptr, errno, assigned

vars == <<source, source_pos, delimiter, comment, quotechar,
          fill_extra_cols, strip_whitespace_lines, strip_whitespace_fields,
          output_cols, col_ptrs, output_len, num_cols, num_rows, state, code,
          end, header, col, old_state, parse_newline, whitespace,
          pc, ret, oob, ub, calls, start_pos, stop_pos, prev,
          offset, skip_i, signif_chars, in_comment,
          use_fast_converter, str, endptr, errno, assigned>>

\* the state as one record, for the operators that compute a step
Cur ==
    [source |-> source, source_pos |-> source_pos, delimiter |-> delimiter,
     comment |-> comment, quotechar |-> quotechar,
     fill_extra_cols |-> fill_extra_cols,
     strip_whitespace_lines |-> strip_whitespace_lines,
     strip_whitespace_fields |-> strip_whitespace_fields,
     output_cols |-> output_cols, col_ptrs |-> col_ptrs,
     output_len |-> output_len, num_cols |-> num_cols, num_rows |-> num_rows,
     state |-> state, code |-> code,
     end |-> end, header |-> header, col |-> col, old_state |-> old_state,
     parse_newline |-> parse_newline, whitespace |-> whitespace,
     pc |-> pc, ret |-> ret, oob |-> oob, ub |-> ub, calls |-> calls,
     start_pos |-> start_pos, stop_pos |-> stop_pos, prev |-> prev,
     offset |-> offset, skip_i |-> skip_i, signif_chars |-> signif_chars,
     in_comment |-> in_comment,
     use_fast_converter |-> use_fast_converter, str |-> str, endptr |-> endptr,
     errno |-> errno, assigned |-> assigned]

Commit(m) ==
    /\ source' = m.source
    /\ source_pos' = m.source_pos
    /\ delimiter' = m.delimiter
    /\ comment' = m.comment
    /\ quotechar' = m.quotechar
    /\ fill_extra_cols' = m.fill_extra_cols
    /\ strip_whitespace_lines' = m.strip_whitespace_lines
    /\ strip_whitespace_fields' = m.strip_whitespace_fields
    /\ output_cols' = m.output_cols
    /\ col_ptrs' = m.col_ptrs
    /\ output_len' = m.output_len
    /\ num_cols' = m.num_cols
    /\ num_rows' = m.num_rows
    /\ state' = m.state
    /\ code' = m.code
    /\ end' = m.end
    /\ header' = m.header
    /\ col' = m.col
    /\ old_state' = m.old_state
    /\ parse_newline' = m.parse_newline
    /\ whitespace' = m.whitespace
    /\ pc' = m.pc
    /\ ret' = m.ret
    /\ oob' = m.oob
    /\ ub' = m.ub
    /\ calls' = m.calls
    /\ start_pos' = m.start_pos
    /\ stop_pos' = m.stop_pos
    /\ prev' = m.prev
    /\ offset' = m.offset
    /\ skip_i' = m.skip_i
    /\ signif_chars' = m.signif_chars
    /\ in_comment' = m.in_comment
    /\ use_fast_converter' = m.use_fast_converter
    /\ str' = m.str
    /\ endptr' = m.endptr
    /\ errno' = m.errno
    /\ assigned' = m.assigned

\* ---------------------------------------------------------------- column buffers
\* n copies of x, as a sequence
RECURSIVE Rep(_, _)
Rep(n, x) == IF n <= 0 THEN <<>> ELSE Append(Rep(n - 1, x), x)

Zeros(n) == Rep(n, NUL)

\* an access with col >= num_cols: outside col_ptrs / output_cols / output_len
OutOfCols(m) == [m EXCEPT !.oob = TRUE, !.ub = @ \cup {"colidx"}]

resize_col(m, index) ==
    [m EXCEPT !.output_cols[index] = @ \o Zeros(m.output_len[index]),
              !.output_len[index] = 2 * @]

\* *col_ptrs[col]++ = c
Store(r, i, c) ==
    [r EXCEPT !.output_cols[i][r.col_ptrs[i] + 1] = c, !.col_ptrs[i] = @ + 1]

PUSH(m, c) ==
    IF m.col >= m.num_cols THEN OutOfCols(m)
    ELSE Store(IF m.col_ptrs[m.col + 1] >= m.output_len[m.col + 1]
               THEN resize_col(m, m.col + 1) ELSE m,
               m.col + 1, c)

BEGIN_FIELD(m) == [m EXCEPT !.state = START_FIELD, !.whitespace = TRUE]

\* END_FIELD's while loop without its whitespace test
StripStopNone(buf, p) == p

\* where END_FIELD's while loop stops when it starts at offset p: the first
\* offset at or below p whose byte is neither ' ' nor '\t'; -1 when the loop
\* runs off the start of the buffer (the byte read there is outside it)
RECURSIVE StripStop(_, _)
StripStop(buf, p) ==
    IF p >= 0 /\ buf[p + 1] \in WS THEN StripStop(buf, p - 1) ELSE p

\* the right-strip of END_FIELD on column index i
\* column i with its write pointer moved back to offset p + 1 and the bytes
\* from there to the old pointer zeroed; p = -1 means the loop read offset -1
StripTo(m, i, p) ==
    [m EXCEPT !.output_cols[i] =
                  SubSeq(@, 1, p + 1) \o Zeros(m.col_ptrs[i] - (p + 1))
                      \o SubSeq(@, m.col_ptrs[i] + 1, Len(@)),
              !.col_ptrs[i] = p + 1,
              !.oob = IF p = -1 THEN TRUE ELSE @,
              !.ub = IF p = -1 THEN @ \cup {"under"} ELSE @]

StripField(m, i) ==
    StripTo(m, i, StripStop(m.output_cols[i], m.col_ptrs[i] - 1))

\* if (col_ptrs[col] == output_cols[col] || col_ptrs[col][-1] == '\x00')
\*     PUSH('\x01');
MarkEmpty(s, i) ==
    IF s.col_ptrs[i] = 0 \/ s.output_cols[i][s.col_ptrs[i]] = NUL
    THEN PUSH(s, SOH) ELSE s

\* END_FIELD's last statement without its header test
NextColAlways(m) == [m EXCEPT !.col = @ + 1]

\* if (!header) ++col;
NextCol(m) == [m EXCEPT !.col = IF m.header THEN @ ELSE @ + 1]

END_FIELD(m) ==
    IF m.col >= m.num_cols
    THEN NextCol(OutOfCols(m))
    ELSE NextCol(PUSH(MarkEmpty(IF m.strip_whitespace_fields
                                THEN StripField(m, m.col + 1) ELSE m,
                                m.col + 1),
                      NUL))

RETURN(m, c) ==
    [m EXCEPT !.code = c, !.ret = c, !.pc = "returned", !.stop_pos = m.source_pos]

\* END_LINE's fill_extra_cols loop left out
FillColsNone(m) == m

\* while (col < self->num_cols) { PUSH('\x01'); END_FIELD(); }
RECURSIVE FillCols(_)
FillCols(m) ==
    IF m.col < m.num_cols THEN FillCols(END_FIELD(PUSH(m, SOH))) ELSE m

\* END_LINE's row count without the row-limit return
CountRowNoLimit(m) == [m EXCEPT !.num_rows = @ + 1, !.old_state = START_LINE]

\* ++self->num_rows; old_state = START_LINE; return when the row limit is met
CountRow(m) ==
    LET r == [m EXCEPT !.num_rows = @ + 1, !.old_state = START_LINE]
    IN IF r.end # -1 /\ r.num_rows = r.end
       THEN RETURN([r EXCEPT !.source_pos = @ + 1], NO_ERROR)
       ELSE r

\* END_LINE without its NOT_ENOUGH_COLS branch
END_LINE_AcceptShort(m) ==
    IF m.header THEN RETURN([m EXCEPT !.source_pos = @ + 1], NO_ERROR)
    ELSE IF m.fill_extra_cols THEN CountRow(FillCols(m))
    ELSE CountRow(m)

END_LINE(m) ==
    IF m.header THEN RETURN([m EXCEPT !.source_pos = @ + 1], NO_ERROR)
    ELSE IF m.fill_extra_cols THEN CountRow(FillCols(m))
    ELSE IF m.col < m.num_cols THEN RETURN(m, NOT_ENOUGH_COLS)
    ELSE CountRow(m)

HANDLE_CR(m) == [m EXCEPT !.old_state = m.state, !.state = CARRIAGE_RETURN]

\* END_LINE(); self->state = START_LINE; break;  (END_LINE may have returned)
AfterLine(r) == IF r.pc = "returned" THEN r ELSE [r EXCEPT !.state = START_LINE]

LineDone(m) == AfterLine(END_LINE(m))

\* ---------------------------------------------------------------- the cases of the switch
SetState(m, s) == [m EXCEPT !.state = s]

\* the backtracking loop of START_FIELD: from offset p down to the nearest
\* delimiter, '\n' or '\r'; -1 when the start of the input is passed
RECURSIVE BackStop(_, _, _)
BackStop(src, p, d) ==
    IF p >= 0 /\ src[p + 1] \notin {d, LF, CR} THEN BackStop(src, p - 1, d) ELSE p

\* while (source_pos < tmp) { PUSH(source[source_pos]); ++source_pos; }
RECURSIVE PushRange(_, _, _)
PushRange(m, p, tmp) ==
    IF p < tmp THEN PushRange(PUSH(m, m.source[p + 1]), p + 1, tmp) ELSE m

\* case START_FIELD, c == '\n', up to END_LINE
NewlineInStartField(m) ==
    IF m.strip_whitespace_lines
    THEN IF m.delimiter \in WS THEN m ELSE END_FIELD(m)
    ELSE LET tmp == m.source_pos
             b == BackStop(m.source, tmp - 1, m.delimiter)
         IN IF b = -1 \/ m.source[b + 1] \in {LF, CR}
            THEN m
            ELSE END_FIELD(PushRange(m, b + 1, tmp))

CaseField(m, c) ==
    IF m.comment # NUL /\ c = m.comment /\ m.whitespace /\ m.col = 0
    THEN SetState(m, COMMENT)
    ELSE IF c = m.delimiter THEN BEGIN_FIELD(END_FIELD(m))
    ELSE IF c = CR THEN HANDLE_CR(m)
    ELSE IF c = LF THEN LineDone(END_FIELD(m))
    ELSE PUSH([m EXCEPT !.whitespace = IF c \notin WS THEN FALSE ELSE @], c)

CaseStartField(m, c) ==
    IF c \in WS /\ m.strip_whitespace_fields THEN m
    ELSE IF ~m.strip_whitespace_lines /\ m.comment # NUL /\ c = m.comment
    THEN SetState(m, COMMENT)
    ELSE IF c = m.delimiter THEN BEGIN_FIELD(END_FIELD(m))
    ELSE IF c = CR THEN HANDLE_CR(m)
    ELSE IF c = LF THEN LineDone(NewlineInStartField(m))
    ELSE IF c = m.quotechar THEN SetState(m, START_QUOTED_FIELD)
    ELSE IF m.col >= m.num_cols THEN RETURN(m, TOO_MANY_COLS)
    ELSE CaseField(SetState(m, FIELD), c)

CaseStartLine(m, c) ==
    IF c = LF THEN m
    ELSE IF c = CR THEN HANDLE_CR(m)
    ELSE IF c \in WS /\ m.strip_whitespace_lines THEN m
    ELSE IF m.comment # NUL /\ c = m.comment THEN SetState(m, COMMENT)
    ELSE CaseStartField(BEGIN_FIELD([m EXCEPT !.col = 0]), c)

\* case QUOTED_FIELD handled like case FIELD
CaseQuotedFieldAsField(m, c) == CaseField(m, c)

CaseQuotedField(m, c) ==
    IF c = m.quotechar THEN SetState(m, FIELD)
    ELSE IF c = LF THEN SetState(m, QUOTED_FIELD_NEWLINE)
    ELSE IF c = CR THEN HANDLE_CR(m)
    ELSE PUSH(m, c)

CaseQuotedFieldNewline(m, c) ==
    IF m.state = QUOTED_FIELD THEN CaseQuotedField(m, c)
    ELSE IF (c \in WS /\ m.strip_whitespace_lines) \/ c = LF THEN m
    ELSE IF c = CR THEN HANDLE_CR(m)
    ELSE IF c = m.quotechar THEN SetState(m, FIELD)
    ELSE CaseQuotedField(SetState(m, QUOTED_FIELD), c)

CaseStartQuotedField(m, c) ==
    IF c \in WS /\ m.strip_whitespace_fields THEN m
    ELSE IF c = m.quotechar THEN END_FIELD(m)
    ELSE CaseQuotedFieldNewline(SetState(m, QUOTED_FIELD), c)

CaseComment(m, c) ==
    IF c = LF THEN SetState(m, START_LINE)
    ELSE IF c = CR THEN HANDLE_CR(m)
    ELSE m

CaseCarriageReturn(m, c) ==
    LET r == [m EXCEPT !.state = m.old_state, !.source_pos = @ - 1]
    IN IF c # LF
       THEN [r EXCEPT !.source_pos = @ - 1, !.parse_newline = TRUE]
       ELSE r

\* ---------------------------------------------------------------- one loop iteration
\* the byte the iteration works on
Fetch(m) ==
    IF m.source_pos = Len(m.source) \/ m.parse_newline
    THEN LF
    ELSE m.source[m.source_pos + 1]

Switch(m, c) ==
    CASE m.state = START_LINE -> CaseStartLine(m, c)
      [] m.state = START_FIELD -> CaseStartField(m, c)
      [] m.state = FIELD -> CaseField(m, c)
      [] m.state = START_QUOTED_FIELD -> CaseStartQuotedField(m, c)
      [] m.state = QUOTED_FIELD_NEWLINE -> CaseQuotedFieldNewline(m, c)
      [] m.state = QUOTED_FIELD -> CaseQuotedField(m, c)
      [] m.state = COMMENT -> CaseComment(m, c)
      [] m.state = CARRIAGE_RETURN -> CaseCarriageReturn(m, c)

\* the body of the while loop: fetch, parse_newline = 0, switch, ++source_pos
\* ++self->source_pos, unless the switch returned
Advance(r) == IF r.pc = "running" THEN [r EXCEPT !.source_pos = @ + 1] ELSE r

Iteration(m) ==
    Advance(Switch([m EXCEPT !.parse_newline = FALSE, !.oob = FALSE], Fetch(m)))

\* a loop that stops at the last byte of the input
InLoopToLastByte(m) == m.source_pos < Len(m.source)

\* while (self->source_pos < self->source_len + 1)
InLoop(m) == m.source_pos < Len(m.source) + 1

\* ---------------------------------------------------------------- the call
\* what a finished call leaves for its caller
Result(m) ==
    [ret |-> m.ret, num_rows |-> m.num_rows, num_cols |-> m.num_cols,
     output_cols |-> m.output_cols, col_ptrs |-> m.col_ptrs,
     source_pos |-> m.stop_pos,
     end |-> m.end, header |-> m.header, start_pos |-> m.start_pos]

NoResult == [ret |-> "none"]

\* tokenize(self, end, header, num_cols) up to the loop
Call(m, e, h, n) ==
    LET nc == IF h THEN 1 ELSE n
        a == [m EXCEPT !.col = 0, !.old_state = START_LINE,
                       !.parse_newline = FALSE, !.num_rows = 0,
                       !.whitespace = TRUE, !.num_cols = nc,
                       !.end = e, !.header = h,
                       !.output_cols = Rep(nc, Zeros(INITIAL_COL_SIZE)),
                       !.col_ptrs = Rep(nc, 0),
                       !.output_len = Rep(nc, INITIAL_COL_SIZE),
                       !.pc = "running", !.ret = "none", !.oob = FALSE, !.ub = {},
                       !.calls = @ + 1, !.start_pos = m.source_pos,
                       !.prev = IF m.pc = "returned" THEN Result(m) ELSE NoResult]
    IN IF e = 0 THEN RETURN(a, NO_ERROR) ELSE SetState(a, START_LINE)

\* the whole call as a function of the tokenizer at the call, along the
\* outcome in which no access faults
RECURSIVE Loop(_)
Loop(m) ==
    IF m.pc # "running" THEN m
    ELSE IF ~InLoop(m) THEN RETURN(m, NO_ERROR)
    ELSE Loop(Iteration(m))

tokenize(m, e, h, n) == Loop(Call(m, e, h, n))

\* ---------------------------------------------------------------- actions
Sources == UNION {[1..k -> Alphabet] : k \in 0..MaxLen}

\* create_tokenizer: what does not depend on its arguments, and the
\* variables no call has set yet
Blank ==
    /\ source_pos = 0
    /\ quotechar = QUOTE
    /\ output_cols = <<>>
    /\ col_ptrs = <<>>
    /\ output_len = <<>>
    /\ num_cols = 0
    /\ num_rows = 0
    /\ state = START_LINE
    /\ code = NO_ERROR
    /\ end = -1
    /\ header = FALSE
    /\ col = 0
    /\ old_state = START_LINE
    /\ parse_newline = FALSE
    /\ whitespace = TRUE
    /\ pc = "idle"
    /\ ret = "none"
    /\ oob = FALSE
    /\ ub = {}
    /\ calls = 0
    /\ start_pos = 0
    /\ stop_pos = 0
    /\ prev = NoResult
    /\ offset = 0
    /\ skip_i = 0
    /\ signif_chars = 0
    /\ in_comment = FALSE
    /\ str = <<>>
    /\ endptr = UNSET
    /\ errno = 0
    /\ assigned = "none"

\* create_tokenizer: everything but the input and the delimiter
Created ==
    /\ comment = HASH
    /\ fill_extra_cols \in BOOLEAN
    /\ strip_whitespace_lines \in BOOLEAN
    /\ strip_whitespace_fields \in BOOLEAN
    /\ use_fast_converter = TRUE
    /\ Blank

\* create_tokenizer, then the caller installs the input
Init ==
    /\ delimiter \in {COMMA, SP}
    /\ source \in Sources
    /\ Created

Ends == {-1} \cup (0..MaxEnd)

Tokenize ==
    /\ pc = "idle"
    /\ \E e \in Ends, h \in BOOLEAN, n \in 1..MaxCols :
          Commit(Call(Cur, e, h, n))

\* the program stops in the step that made an out-of-bounds access
Fault(m) == [m EXCEPT !.pc = "fault", !.oob = TRUE]

Take(r) ==
    \/ Commit(r)
    \/ r.oob /\ Commit(Fault([Cur EXCEPT !.ub = r.ub]))

Running(s) == pc = "running" /\ InLoop(Cur) /\ state = s

StartLine == Running(START_LINE) /\ Take(Iteration(Cur))
StartField == Running(START_FIELD) /\ Take(Iteration(Cur))
Field == Running(FIELD) /\ Take(Iteration(Cur))
StartQuotedField == Running(START_QUOTED_FIELD) /\ Take(Iteration(Cur))
QuotedFieldNewline == Running(QUOTED_FIELD_NEWLINE) /\ Take(Iteration(Cur))
QuotedField == Running(QUOTED_FIELD) /\ Take(Iteration(Cur))
Comment == Running(COMMENT) /\ Take(Iteration(Cur))
CarriageReturn == Running(CARRIAGE_RETURN) /\ Take(Iteration(Cur))

\* the loop condition fails: RETURN(0)
LoopExit ==
    /\ pc = "running"
    /\ ~InLoop(Cur)
    /\ Commit(RETURN([Cur EXCEPT !.oob = FALSE], NO_ERROR))

Next ==
    \/ Tokenize
    \/ StartLine
    \/ StartField
    \/ Field
    \/ StartQuotedField
    \/ QuotedFieldNewline
    \/ QuotedField
    \/ Comment
    \/ CarriageReturn
    \/ LoopExit

Spec == Init /\ [][Next]_vars

\* ---------------------------------------------------------------- a second call
\* set_source: the caller installs the input again, which zeroes the cursor
SetSource ==
    /\ pc = "returned"
    /\ calls = 1
    /\ source_pos # 0
    /\ Commit([Cur EXCEPT !.source_pos = 0])

\* a second call that leaves out "self->num_rows = 0"
TokenizeAgainKeepRows ==
    /\ pc = "returned"
    /\ calls = 1
    /\ Commit([Call(Cur, end, header, num_cols) EXCEPT !.num_rows = num_rows])

\* tokenize called again on the same tokenizer with the arguments of the
\* first call
TokenizeAgain ==
    /\ pc = "returned"
    /\ calls = 1
    /\ Commit(Call(Cur, end, header, num_cols))

NextAgain == Next \/ SetSource \/ TokenizeAgain

SpecAgain == Init /\ [][NextAgain]_vars

\* ---------------------------------------------------------------- reading in chunks
\* after a data-mode call with a row limit returned, tokenize is called
\* again with end = -1, the cursor left where the first call stopped
TokenizeRest ==
    /\ pc = "returned"
    /\ calls = 1
    /\ ~header /\ end > 0
    /\ Commit(Call(Cur, -1, header, num_cols))

NextChunks == Next \/ TokenizeRest

SpecChunks == Init /\ [][NextChunks]_vars

\* ---------------------------------------------------------------- skip_lines
\* RETURN inside skip_lines
SkipRETURN(m, c) == [m EXCEPT !.code = c, !.ret = c, !.pc = "skipped"]

\* skip_lines(self, offset, header) up to the loop
SkipCall(m, o, h) ==
    [m EXCEPT !.offset = o, !.header = h, !.signif_chars = 0,
              !.in_comment = FALSE, !.skip_i = 0, !.pc = "skipping",
              !.ret = "none", !.start_pos = m.source_pos]

\* if (self->source_pos >= self->source_len)
SkipAtEnd(m) == m.source_pos >= Len(m.source)

\* c = self->source[self->source_pos]
SkipByteAt(m) == m.source[m.source_pos + 1]

\* the '\r' at the cursor is followed by '\n'
SkipCRLF(m) ==
    /\ SkipByteAt(m) = CR
    /\ m.source_pos < Len(m.source) - 1
    /\ m.source[m.source_pos + 2] = LF

\* the branch for c == '\r' || c == '\n', then ++self->source_pos
SkipLineEnd(m) ==
    [m EXCEPT !.source_pos = IF SkipCRLF(m) THEN @ + 2 ELSE @ + 1,
              !.skip_i = IF ~m.in_comment /\ m.signif_chars > 0 THEN @ + 1 ELSE @,
              !.signif_chars = 0,
              !.in_comment = FALSE]

SkipSignificantAlways(m) == TRUE

\* (c != ' ' && c != '\t') || !self->strip_whitespace_lines || header
SkipSignificant(m) ==
    SkipByteAt(m) \notin WS \/ ~m.strip_whitespace_lines \/ m.header

\* the branch for any other byte, then ++self->source_pos
SkipOther(m) ==
    IF SkipSignificant(m)
    THEN [m EXCEPT !.in_comment =
                       IF m.signif_chars = 0 /\ m.comment # NUL
                          /\ SkipByteAt(m) = m.comment
                       THEN TRUE ELSE @,
                   !.signif_chars = @ + 1,
                   !.source_pos = @ + 1]
    ELSE [m EXCEPT !.source_pos = @ + 1]

SkipSources ==
    UNION {[1..k -> {LETTER, SP, HASH, LF, CR}] : k \in 0..MaxSkipLen}

\* create_tokenizer for a skip_lines call: the comment character may be 0
InitSkip ==
    /\ delimiter = COMMA
    /\ source \in SkipSources
    /\ comment \in {HASH, NUL}
    /\ fill_extra_cols = FALSE
    /\ strip_whitespace_lines \in BOOLEAN
    /\ strip_whitespace_fields = FALSE
    /\ use_fast_converter = TRUE
    /\ Blank

\* skip_lines may be called again once a call has returned; the cursor stays
\* where the previous call left it
skip_lines ==
    /\ pc \in {"idle", "skipped"}
    /\ \E o \in -1..MaxOffset, h \in BOOLEAN : Commit(SkipCall(Cur, o, h))

InSkipLoop == pc = "skipping" /\ skip_i < offset

SkipEndCodeNoError(m) == NO_ERROR

\* if (header) RETURN(INVALID_LINE); else RETURN(NO_ERROR);
SkipEndCode(m) == IF m.header THEN INVALID_LINE ELSE NO_ERROR

\* the input ended before offset lines were counted
SkipEnd ==
    /\ InSkipLoop
    /\ SkipAtEnd(Cur)
    /\ Commit(SkipRETURN(Cur, SkipEndCode(Cur)))

SkipTerminator ==
    /\ InSkipLoop
    /\ ~SkipAtEnd(Cur)
    /\ SkipByteAt(Cur) \in {CR, LF}
    /\ Commit(SkipLineEnd(Cur))

SkipByte ==
    /\ InSkipLoop
    /\ ~SkipAtEnd(Cur)
    /\ SkipByteAt(Cur) \notin {CR, LF}
    /\ Commit(SkipOther(Cur))

\* the loop condition fails: RETURN(NO_ERROR)
SkipDone ==
    /\ pc = "skipping"
    /\ skip_i >= offset
    /\ Commit(SkipRETURN(Cur, NO_ERROR))

NextSkip == skip_lines \/ SkipEnd \/ SkipTerminator \/ SkipByte \/ SkipDone

SpecSkip == InitSkip /\ [][NextSkip]_vars

\* ---------------------------------------------------------------- str_to_double
\* the byte at offset p of the C string s, whose terminator is at Len(s)
AtStr(s, p) == IF p < Len(s) THEN s[p + 1] ELSE NUL

isspace(c) == c \in {SP, TAB, LF, CR}

isdigit(c) == c \in {ONE, NINE}

toupper(c) == IF c = LOWER_E THEN UPPER_E ELSE c

\* *p - '0'
DigitValue(c) == IF c = ONE THEN 1 ELSE 9

\* while (isspace(*p)) p++;
RECURSIVE SkipSpaces(_, _)
SkipSpaces(s, p) == IF isspace(AtStr(s, p)) THEN SkipSpaces(s, p + 1) ELSE p

\* switch (*p) { case '-': ... case '+': p++; }
SkipSign(s, p) == IF AtStr(s, p) \in {MINUS, PLUS} THEN p + 1 ELSE p

\* while (isdigit(*p)) p++;  the offset where the loop stops
RECURSIVE DigitsEnd(_, _)
DigitsEnd(s, p) == IF isdigit(AtStr(s, p)) THEN DigitsEnd(s, p + 1) ELSE p

\* n = n * 10 + (*p - '0') over the digits from offset p
RECURSIVE DigitsValue(_, _, _)
DigitsValue(s, p, n) ==
    IF isdigit(AtStr(s, p))
    THEN DigitsValue(s, p + 1, n * 10 + DigitValue(AtStr(s, p)))
    ELSE n

\* xstrtod's integer loop: after each digit one tsep byte is stepped over
\* (p += (tsep != '\0' & *p == tsep)); the offset where the loop stops
RECURSIVE IntEnd(_, _, _)
IntEnd(s, p, tsep) ==
    IF isdigit(AtStr(s, p))
    THEN IntEnd(s, IF tsep # NUL /\ AtStr(s, p + 1) = tsep THEN p + 2 ELSE p + 1,
                tsep)
    ELSE p

\* num_digits after xstrtod's integer loop
RECURSIVE IntCount(_, _, _)
IntCount(s, p, tsep) ==
    IF isdigit(AtStr(s, p))
    THEN 1 + IntCount(s, IF tsep # NUL /\ AtStr(s, p + 1) = tsep
                         THEN p + 2 ELSE p + 1,
                      tsep)
    ELSE 0

\* xstrtod's decimal part, entered at offset q with k digits counted
XDecimals(s, q, k, decimal) ==
    IF AtStr(s, q) = decimal
    THEN [p |-> DigitsEnd(s, q + 1),
          num_digits |-> k + (DigitsEnd(s, q + 1) - (q + 1)),
          num_decimals |-> DigitsEnd(s, q + 1) - (q + 1)]
    ELSE [p |-> q, num_digits |-> k, num_decimals |-> 0]

\* xstrtod from the leading whitespace to the end of the decimal part
XMantissa(s, decimal, tsep) ==
    XDecimals(s, IntEnd(s, SkipSign(s, SkipSpaces(s, 0)), tsep),
              IntCount(s, SkipSign(s, SkipSpaces(s, 0)), tsep), decimal)

\* xstrtod's exponent string at offset p: where it ends and its value
XExponent(s, p, sci) ==
    IF toupper(AtStr(s, p)) = toupper(sci)
    THEN [p |-> DigitsEnd(s, SkipSign(s, p + 1)),
          n |-> IF AtStr(s, p + 1) = MINUS
                THEN -DigitsValue(s, SkipSign(s, p + 1), 0)
                ELSE DigitsValue(s, SkipSign(s, p + 1), 0)]
    ELSE [p |-> p, n |-> 0]

\* number == HUGE_VAL after scaling: digits decimal digits (none of them 0)
\* times ten to the exponent is beyond the largest double.  Exact as long as
\* digits - 1 + exponent is not DBL_MAX_10_EXP itself.
Overflows(digits, exponent) == digits - 1 + exponent > DBL_MAX_10_EXP

\* xstrtod after the exponent string: the range test on the exponent, the
\* scaling, the trailing whitespace, *endptr = p
XFinish(s, mt, ex, skip_trailing) ==
    IF ex.n - mt.num_decimals < DBL_MIN_EXP \/ ex.n - mt.num_decimals > DBL_MAX_EXP
    THEN [endset |-> FALSE, end |-> 0, errno |-> ERANGE]
    ELSE [endset |-> TRUE,
          end |-> IF skip_trailing THEN SkipSpaces(s, ex.p) ELSE ex.p,
          errno |-> IF Overflows(mt.num_digits, ex.n - mt.num_decimals)
                    THEN ERANGE ELSE 0]

\* xstrtod after the decimal part; with no digit it returns at once
XAfterMantissa(s, mt, sci, skip_trailing) ==
    IF mt.num_digits = 0
    THEN [endset |-> FALSE, end |-> 0, errno |-> ERANGE]
    ELSE XFinish(s, mt, XExponent(s, mt.p, sci), skip_trailing)

\* xstrtod: whether *endptr was assigned, the offset assigned to it, and
\* errno at the return (xstrtod starts with errno = 0)
xstrtod(s, decimal, sci, tsep, skip_trailing) ==
    XAfterMantissa(s, XMantissa(s, decimal, tsep), sci, skip_trailing)

\* the C library's strtod on the bytes of the model: where the digits and
\* the optional '.' of the longest decimal number end, and how many digits
\* before and after the '.' there are
PMantissa(s, a) ==
    IF AtStr(s, DigitsEnd(s, a)) = DOT
    THEN [p |-> DigitsEnd(s, DigitsEnd(s, a) + 1),
          int_digits |-> DigitsEnd(s, a) - a,
          num_digits |-> DigitsEnd(s, DigitsEnd(s, a) + 1) - a - 1]
    ELSE [p |-> DigitsEnd(s, a), int_digits |-> DigitsEnd(s, a) - a,
          num_digits |-> DigitsEnd(s, a) - a]

\* strtod's exponent part at offset p: taken only with at least one digit
PExponent(s, p) ==
    IF toupper(AtStr(s, p)) = UPPER_E /\ isdigit(AtStr(s, SkipSign(s, p + 1)))
    THEN XExponent(s, p, UPPER_E)
    ELSE [p |-> p, n |-> 0]

\* strtod after the mantissa: no conversion (end pointer = str) without a
\* digit; ERANGE when the value is beyond the largest double
PFinish(s, mt, ex) ==
    IF mt.num_digits = 0
    THEN [end |-> 0, range |-> FALSE]
    ELSE [end |-> ex.p,
          range |-> Overflows(mt.int_digits, ex.n)]

PAfterMantissa(s, mt) == PFinish(s, mt, PExponent(s, mt.p))

strtod(s) == PAfterMantissa(s, PMantissa(s, SkipSign(s, SkipSpaces(s, 0))))

\* self->code = c
SetCode(m, c) == [m EXCEPT !.code = c, !.assigned = c]

\* val = xstrtod(str, &tmp, '.', 'E', ',', 1): tmp stays unset when xstrtod
\* returns before *endptr = p
FastConverted(m, s, r) ==
    [m EXCEPT !.str = s, !.assigned = "none", !.errno = r.errno,
              !.endptr = IF r.endset THEN r.end ELSE UNSET,
              !.oob = ~r.endset,
              !.ub = IF r.endset THEN @ ELSE @ \cup {"endptr"},
              !.pc = "converted", !.calls = @ + 1]

\* val = strtod(str, &tmp): errno is written on a range error only
PlatformConverted(m, s, r) ==
    [m EXCEPT !.str = s, !.assigned = "none",
              !.errno = IF r.range THEN ERANGE ELSE @,
              !.endptr = r.end, !.oob = FALSE,
              !.pc = "converted", !.calls = @ + 1]

\* str_to_double up to the return of the converter
Converted(m, s) ==
    IF m.use_fast_converter
    THEN FastConverted(m, s, xstrtod(s, DOT, UPPER_E, COMMA, TRUE))
    ELSE PlatformConverted(m, s, strtod(s))

\* *tmp: the byte the end pointer points to; g when the pointer is unset
\* and the read goes wherever the stale value of tmp leads
EndByte(m, g) == IF m.endptr = UNSET THEN g ELSE AtStr(m.str, m.endptr)

\* the fast converter's test without reading the end pointer
FastNoEndTest(m, g) == FALSE

\* if (*tmp)
FastEndTest(m, g) == EndByte(m, g) # NUL

\* if (tmp == str || *tmp != 0)
PlatformEndTest(m, g) == m.endptr = 0 \/ EndByte(m, g) # NUL

\* else if (errno == ERANGE)
RangeTest(m) == IF m.errno = ERANGE THEN SetCode(m, OVERFLOW_ERROR) ELSE m

\* the tests of str_to_double on what the converter left
EndTests(m, g) ==
    IF m.use_fast_converter
    THEN IF FastEndTest(m, g) THEN SetCode(m, CONVERSION_ERROR) ELSE RangeTest(m)
    ELSE IF PlatformEndTest(m, g) THEN SetCode(m, CONVERSION_ERROR)
    ELSE RangeTest(m)

str_to_double(m, s, g) == EndTests(Converted(m, s), g)

NumBytes == {ONE, NINE, MINUS, DOT, UPPER_E, COMMA, LETTER, SP}

NumStrings(n) == UNION {[1..k -> NumBytes] : k \in 0..n}

\* what a read through an unset pointer may find
Garbage == {NUL, LETTER}

\* create_tokenizer with either converter; errno as the program starts
InitNum ==
    /\ delimiter = COMMA
    /\ source = <<>>
    /\ comment = HASH
    /\ fill_extra_cols = FALSE
    /\ strip_whitespace_lines = FALSE
    /\ strip_whitespace_fields = FALSE
    /\ use_fast_converter \in BOOLEAN
    /\ Blank

\* the call returns, or the read through the unset end pointer faults
Convert(s) ==
    \/ \E g \in Garbage : Commit(str_to_double(Cur, s, g))
    \/ /\ Converted(Cur, s).oob
       /\ Commit(Fault(Converted(Cur, s)))

ToDouble == pc = "idle" /\ \E s \in NumStrings(MaxNumLen) : Convert(s)

\* the conversion of the next field
ToDoubleAgain ==
    /\ pc = "converted"
    /\ calls = 1
    /\ \E s \in NumStrings(MaxNextLen) : Convert(s)

NextNum == ToDouble \/ ToDoubleAgain

SpecNum == InitNum /\ [][NextNum]_vars

\* ---------------------------------------------------------------- one line of fields
\* the bytes a field may hold when d is the delimiter
FieldBytes(d) == {LETTER, SP, HASH, SOH} \ {d}

Fields(d) == UNION {[1..k -> FieldBytes(d)] : k \in 0..MaxField}

FieldLists(d) == UNION {[1..k -> Fields(d)] : k \in 1..MaxFields}

\* the fields joined with the delimiter
RECURSIVE Join(_, _)
Join(fs, d) ==
    IF Len(fs) = 1 THEN fs[1] ELSE fs[1] \o <<d>> \o Join(Tail(fs), d)

\* the input is one line: fields joined with the delimiter, then '\n'
InitLine ==
    /\ delimiter \in {COMMA, SP}
    /\ source \in {Join(fs, delimiter) \o <<LF>> : fs \in FieldLists(delimiter)}
    /\ Created

\* such an input has no quote and no '\r': the quoted states and
\* CARRIAGE_RETURN are never entered
NextLine ==
    \/ Tokenize
    \/ StartLine
    \/ StartField
    \/ Field
    \/ Comment
    \/ LoopExit

SpecLine == InitLine /\ [][NextLine]_vars

\* ---------------------------------------------------------------- two lines
\* a first line of quotes, ordinary bytes and comment characters, then '\n',
\* then a short second line
TwoLines ==
    {a \o <<LF>> \o b :
        a \in UNION {[1..k -> {QUOTE, LETTER, HASH}] : k \in 0..MaxFirst},
        b \in UNION {[1..k -> {SP, LETTER}] : k \in 0..MaxSecond}}

InitTwoLines ==
    /\ delimiter \in {COMMA, SP}
    /\ source \in TwoLines
    /\ Created

\* such an input has no '\r': CARRIAGE_RETURN is never entered
NextTwoLines ==
    \/ Tokenize
    \/ StartLine
    \/ StartField
    \/ Field
    \/ StartQuotedField
    \/ QuotedFieldNewline
    \/ QuotedField
    \/ Comment
    \/ LoopExit

SpecTwoLines == InitTwoLines /\ [][NextTwoLines]_vars

\* ---------------------------------------------------------------- reading the output
\* the used region of column index i: the bytes below its write pointer
Used(i) == SubSeq(output_cols[i], 1, col_ptrs[i])

RECURSIVE Count(_, _)
Count(s, x) ==
    IF s = <<>> THEN 0 ELSE (IF Head(s) = x THEN 1 ELSE 0) + Count(Tail(s), x)

Returned == pc = "returned"

\* ---------------------------------------------------------------- claims

\* C1: whenever tokenize (data mode) returns NO_ERROR, every column holds
\* exactly num_rows terminators 0x00 below its write pointer and no
\* unterminated bytes after the last of them.
C1_ColumnsHoldNumRowsFields ==
    (Returned /\ ~header /\ ret = NO_ERROR) =>
        \A i \in 1..num_cols :
            /\ Count(Used(i), NUL) = num_rows
            /\ (col_ptrs[i] = 0 \/ output_cols[i][col_ptrs[i]] = NUL)

\* C2: a data row with more fields than num_cols makes tokenize return
\* TOO_MANY_COLS, so that no step ever reads a write pointer or writes a
\* byte for a column index col >= num_cols.
C2_NoAccessBeyondNumCols ==
    /\ "colidx" \notin ub
    /\ (~header /\ pc \in {"running", "returned"} /\ col > num_cols) => ret = TOO_MANY_COLS

\* C3: in data mode with fill_extra_cols false, a line end reached with fewer
\* than num_cols fields makes tokenize return NOT_ENOUGH_COLS, with code set
\* to it, num_rows still the number of rows completed before and the cursor
\* left on that line end; and a row is only ever counted with all its fields.
LineEndStep ==
    /\ pc = "running"
    /\ InLoop(Cur)
    /\ ~header
    /\ state \in {START_FIELD, FIELD}
    /\ Fetch(Cur) = LF
    /\ pc' # "fault"

C3_ShortRowReturnsNotEnoughCols ==
    [][/\ (LineEndStep /\ ~fill_extra_cols /\ col' < num_cols) =>
             /\ pc' = "returned"
             /\ ret' = NOT_ENOUGH_COLS
             /\ code' = NOT_ENOUGH_COLS
             /\ num_rows' = num_rows
             /\ source_pos' = source_pos
       /\ (pc = "running" /\ ~header /\ ~fill_extra_cols /\ num_rows' # num_rows) =>
             /\ num_rows' = num_rows + 1
             /\ col' >= num_cols
       /\ (pc = "running" /\ ret' = NOT_ENOUGH_COLS) =>
             (LineEndStep /\ ~fill_extra_cols /\ col' < num_cols)]_vars

\* a short row after a complete one: NOT_ENOUGH_COLS with one row counted
C3_Witness ==
    Returned /\ ret = NOT_ENOUGH_COLS /\ code = NOT_ENOUGH_COLS /\ num_rows = 1

\* ---------------------------------------------------------------- header mode
\* the first offset at or after p whose byte is not '\n' (Len(src) if none)
RECURSIVE SkipNewlines(_, _)
SkipNewlines(src, p) ==
    IF p < Len(src) /\ src[p + 1] = LF THEN SkipNewlines(src, p + 1) ELSE p

\* the first offset at or after p whose byte is '\n' (Len(src) if none)
RECURSIVE LineEnd(_, _)
LineEnd(src, p) ==
    IF p < Len(src) /\ src[p + 1] # LF THEN LineEnd(src, p + 1) ELSE p

\* a field as the packed encoding stores it
Packed(f) == IF f = <<>> THEN <<SOH, NUL>> ELSE f \o <<NUL>>

\* the fields of a line, split at d, each packed, one after the other
RECURSIVE PackLine(_, _, _)
PackLine(line, f, d) ==
    IF line = <<>> THEN Packed(f)
    ELSE IF Head(line) = d THEN Packed(f) \o PackLine(Tail(line), <<>>, d)
    ELSE PackLine(Tail(line), Append(f, Head(line)), d)

\* the input holds only ordinary bytes, delimiters ',' and '\n'
PlainSource ==
    delimiter = COMMA /\ \A k \in DOMAIN source : source[k] \in {LETTER, COMMA, LF}

FirstLineStart == SkipNewlines(source, 0)
FirstLineEnd == LineEnd(source, FirstLineStart)
FirstLine == SubSeq(source, FirstLineStart + 1, FirstLineEnd)

\* C4 as stated: in header mode num_cols is forced to 1, the first
\* significant line is copied whole into column 0, delimiters included, with
\* one 0x00 at its end; tokenize returns NO_ERROR after it and num_rows is 0.
C4_HeaderLineKeptWhole ==
    (header /\ Returned) =>
        /\ num_cols = 1 /\ ret = NO_ERROR /\ num_rows = 0
        /\ (PlainSource /\ end # 0 /\ FirstLine # <<>>) =>
               Used(1) = FirstLine \o <<NUL>>

\* C4 amended: in header mode num_cols is forced to 1 and col stays 0; the
\* first significant line is split at the delimiter and every field of it is
\* written to column 0 followed by its own 0x00 (an empty field as 0x01
\* 0x00), so the delimiters are not payload; tokenize returns NO_ERROR with
\* the cursor just past that line, and num_rows is 0.
C4_HeaderFieldsInColumnZero ==
    /\ (header /\ pc \in {"running", "returned"}) =>
           num_cols = 1 /\ num_rows = 0 /\ col = 0
    /\ (header /\ Returned) =>
           /\ ret = NO_ERROR /\ code = NO_ERROR
           /\ (PlainSource /\ end # 0) =>
                  IF FirstLineStart = Len(source)
                  THEN Used(1) = <<>> /\ source_pos = Len(source) + 1
                  ELSE /\ Used(1) = PackLine(FirstLine, <<>>, COMMA)
                       /\ source_pos = FirstLineEnd + 1

\* the header "a,a" came out as a 0x00 a 0x00
C4_Witness ==
    /\ header /\ Returned /\ PlainSource
    /\ source = <<LETTER, COMMA, LETTER>>
    /\ Used(1) = <<LETTER, NUL, LETTER, NUL>>

\* ---------------------------------------------------------------- line ends
\* the input with every "\r\n" replaced by "\n"
RECURSIVE ReplaceCRLF(_)
ReplaceCRLF(src) ==
    IF src = <<>> THEN <<>>
    ELSE IF Len(src) >= 2 /\ src[1] = CR /\ src[2] = LF
    THEN <<LF>> \o ReplaceCRLF(SubSeq(src, 3, Len(src)))
    ELSE <<Head(src)>> \o ReplaceCRLF(Tail(src))

\* the input with every '\r' that no '\n' follows replaced by '\n'
RECURSIVE ReplaceLoneCR(_)
ReplaceLoneCR(src) ==
    IF src = <<>> THEN <<>>
    ELSE IF Len(src) >= 2 /\ src[1] = CR /\ src[2] = LF
    THEN <<CR, LF>> \o ReplaceLoneCR(SubSeq(src, 3, Len(src)))
    ELSE <<IF Head(src) = CR THEN LF ELSE Head(src)>> \o ReplaceLoneCR(Tail(src))

\* the finished first call on input src with the configuration and the
\* arguments of the current call
OnSource(src) ==
    tokenize([Cur EXCEPT !.source = src, !.source_pos = 0, !.pc = "idle",
                         !.calls = 0],
             end, header, num_cols)

\* what the caller can read back: return code, row count, the used regions
Outcome(m) ==
    [ret |-> m.ret, num_rows |-> m.num_rows,
     cols |-> [i \in 1..m.num_cols |->
                  SubSeq(m.output_cols[i], 1, m.col_ptrs[i])]]

SameAsOn(src) ==
    \A o \in {OnSource(src)} : o.ub = {} => Outcome(Cur) = Outcome(o)

\* C5: a call returns the same code, num_rows and column contents as the
\* call with the same configuration on the input in which every "\r\n" is
\* replaced by "\n", and as the one in which every lone '\r' is replaced by
\* '\n' (calls with an out-of-bounds access left aside).
C5_CRLFEquivalence ==
    (Returned /\ calls = 1 /\ ub = {}) =>
        /\ SameAsOn(ReplaceCRLF(source))
        /\ SameAsOn(ReplaceLoneCR(source))

\* ---------------------------------------------------------------- calling twice
\* the second call ended as the first did
SameAsFirstCall ==
    /\ ret = prev.ret
    /\ num_rows = prev.num_rows
    /\ output_cols = prev.output_cols
    /\ col_ptrs = prev.col_ptrs

\* C6 as stated: a second tokenize call with the same arguments on the same
\* tokenizer and input returns the same code, the same num_rows and
\* byte-identical column buffers as the first.
C6_SecondCallSame ==
    (Returned /\ calls = 2) => SameAsFirstCall

\* C6 amended: tokenize reads from the cursor source_pos and leaves it where
\* it stopped, so the second call repeats the first only when the cursor is
\* first put back to where the first call started; then it returns the same
\* code, num_rows, column buffers and final cursor.
C6_SecondCallSameFromSameCursor ==
    (Returned /\ calls = 2 /\ start_pos = prev.start_pos) =>
        SameAsFirstCall /\ source_pos = prev.source_pos

\* a second call after the cursor was reset, on an input with a data row
C6_Witness ==
    /\ Returned /\ calls = 2
    /\ start_pos = prev.start_pos
    /\ prev.source_pos > 0
    /\ num_rows >= 1

\* ---------------------------------------------------------------- round trip
\* the list of fields a line splits into at d
RECURSIVE SplitLine(_, _, _)
SplitLine(line, f, d) ==
    IF line = <<>> THEN <<f>>
    ELSE IF Head(line) = d THEN <<f>> \o SplitLine(Tail(line), <<>>, d)
    ELSE SplitLine(Tail(line), Append(f, Head(line)), d)

RECURSIVE StripLeft(_)
StripLeft(f) == IF f # <<>> /\ Head(f) \in WS THEN StripLeft(Tail(f)) ELSE f

RECURSIVE StripRight(_)
StripRight(f) ==
    IF f # <<>> /\ f[Len(f)] \in WS THEN StripRight(SubSeq(f, 1, Len(f) - 1)) ELSE f

Strip(f) == StripRight(StripLeft(f))

\* the fields the input line was joined from
LineFields == SplitLine(SubSeq(source, 1, Len(source) - 1), <<>>, delimiter)

\* the field the round trip should give back for f: f itself, stripped when
\* strip_whitespace_fields is on
Expected(f) == IF strip_whitespace_fields THEN Strip(f) ELSE f

\* a data call to the end of the input, with one column per field
WholeLineCall ==
    Returned /\ ~header /\ end = -1 /\ num_cols = Len(LineFields)

\* while (*self->curr_pos != '\x00') ++self->curr_pos;  from offset p
RECURSIVE FieldEnd(_, _)
FieldEnd(buf, p) ==
    IF p < Len(buf) /\ buf[p + 1] # NUL THEN FieldEnd(buf, p + 1) ELSE p

\* start_iteration(i) then next_field: the first field of column index i
next_field(i) ==
    IF output_cols[i][1] = SOH THEN <<>>
    ELSE SubSeq(output_cols[i], 1, FieldEnd(output_cols[i], 0))

\* finished_iteration with curr_pos at offset p of column index i
finished_iteration(i, p) ==
    p >= output_len[i] \/ output_cols[i][p + 1] = NUL

\* one row, and every column yields its field of the line and then ends
RoundTrip ==
    /\ ret = NO_ERROR
    /\ num_rows = 1
    /\ \A i \in 1..num_cols :
          /\ next_field(i) = Expected(LineFields[i])
          /\ finished_iteration(i, FieldEnd(output_cols[i], 0) + 1)

NoCommentStart ==
    \A i \in 1..Len(LineFields) :
        StripLeft(LineFields[i]) = <<>> \/ Head(StripLeft(LineFields[i])) # comment

\* with line stripping on and field stripping off, the first field does not
\* begin with a space or tab
FirstNotIndented ==
    (strip_whitespace_lines /\ ~strip_whitespace_fields) =>
        LineFields[1] = StripLeft(LineFields[1])

NoSOH ==
    \A i \in 1..Len(LineFields) :
        \A k \in 1..Len(LineFields[i]) : LineFields[i][k] # SOH

\* every field keeps a byte after the stripping in force; an empty field is
\* allowed among several when fields are not stripped and the delimiter is
\* neither space nor tab
NoLostField ==
    \A i \in 1..Len(LineFields) :
        \/ Expected(LineFields[i]) # <<>>
        \/ ~strip_whitespace_fields /\ delimiter \notin WS /\ Len(LineFields) > 1

WithFill(b) ==
    tokenize([Cur EXCEPT !.fill_extra_cols = b, !.source_pos = start_pos,
                         !.pc = "idle", !.calls = 0],
             end, header, num_cols)

UsedOf(m, i) == SubSeq(m.output_cols[i], 1, m.col_ptrs[i])

IsPrefix(a, b) == Len(a) <= Len(b) /\ SubSeq(b, 1, Len(a)) = a

\* the current call ran with fill_extra_cols off
FillOffCall == Returned /\ calls = 1 /\ ~fill_extra_cols

\* the call with fill on (e) agrees with the current one up to the short row
\* and completes that row with 0x01 0x00 in the columns from col on
PaddedBy(e) ==
    /\ \A i \in 1..num_cols : IsPrefix(Used(i), UsedOf(e, i))
    /\ \A i \in (col + 1)..num_cols :
          /\ e.col_ptrs[i] >= col_ptrs[i] + 2
          /\ e.output_cols[i][col_ptrs[i] + 1] = SOH
          /\ e.output_cols[i][col_ptrs[i] + 2] = NUL

\* C8 as stated: with fill_extra_cols on, the call never ends with a larger
\* num_rows than with it off; the runs differ only where the call with fill
\* off fails with NOT_ENOUGH_COLS, and there the call with fill on pads the
\* row and succeeds (calls with an out-of-bounds access left aside).
C8_FillNeverMoreRows ==
    FillOffCall =>
        \A e \in {WithFill(TRUE)} :
            (ub = {} /\ e.ub = {}) =>
                /\ e.num_rows <= num_rows
                /\ ret # NOT_ENOUGH_COLS => Outcome(e) = Outcome(Cur)
                /\ ret = NOT_ENOUGH_COLS => (PaddedBy(e) /\ e.ret = NO_ERROR)

\* C8 amended: with fill_extra_cols on, the call never ends with a smaller
\* num_rows than with it off. The two calls give the same outcome unless the
\* one with fill off returns NOT_ENOUGH_COLS; then the one with fill on has
\* the same column contents up to there, completes the short row with
\* 0x01 0x00 in columns col..num_cols-1, counts it and goes on, so it ends
\* with more rows and never with NOT_ENOUGH_COLS.
C8_FillNeverFewerRows ==
    FillOffCall =>
        \A e \in {WithFill(TRUE)} :
            /\ e.num_rows >= num_rows
            /\ e.ret # NOT_ENOUGH_COLS
            /\ ret # NOT_ENOUGH_COLS => Outcome(e) = Outcome(Cur)
            /\ ret = NOT_ENOUGH_COLS => (PaddedBy(e) /\ e.num_rows > num_rows)

\* a one-field row under two columns: NOT_ENOUGH_COLS without fill, one
\* more row with it
C8_Witness ==
    /\ FillOffCall /\ ret = NOT_ENOUGH_COLS
    /\ num_cols = 2 /\ col = 1
    /\ WithFill(TRUE).num_rows = num_rows + 1
    /\ UsedOf(WithFill(TRUE), 2) = <<SOH, NUL>>

\* ---------------------------------------------------------------- packed encoding
HasSOH(f) == \E k \in 1..Len(f) : f[k] = SOH

\* u, read after the bytes f of a field not yet terminated, is made of
\* completed fields that are either <<0x01>> or non-empty and free of 0x01,
\* each followed by one 0x00, and ends in bytes free of 0x01
RECURSIVE Encoded(_, _)
Encoded(u, f) ==
    IF u = <<>> THEN ~HasSOH(f)
    ELSE IF Head(u) = NUL
    THEN f # <<>> /\ (f = <<SOH>> \/ ~HasSOH(f)) /\ Encoded(Tail(u), <<>>)
    ELSE Encoded(Tail(u), Append(f, Head(u)))

\* C9: the input holding no 0x00 and no 0x01, in every state reached by
\* tokenize every completed field of every column is one or more payload
\* bytes and a 0x00, or exactly 0x01 0x00; 0x01 appears nowhere else, no two
\* terminators are adjacent and no column starts with one (states of calls
\* that made no out-of-bounds access).
C9_PackedEncoding ==
    (pc \in {"running", "returned"} /\ ub = {}) =>
        \A i \in 1..num_cols : Encoded(Used(i), <<>>)

\* ---------------------------------------------------------------- write pointers
\* C10 (its lower bound): at every point of tokenize the write offset of
\* every column is at least 0, so END_FIELD's right-strip never moves a write
\* pointer to offset -1 and reads there; a step that does is marked "under".
C10_WritePointerInBuffer ==
    /\ "under" \notin ub
    /\ pc \in {"running", "returned"} => \A i \in 1..num_cols : 0 <= col_ptrs[i]

\* ---------------------------------------------------------------- iteration protocol
\* the number of next_field calls the loop
\*   while (!finished_iteration(self)) next_field(self, &size);
\* makes on column index i from offset p on
RECURSIVE IterCalls(_, _)
IterCalls(i, p) ==
    IF finished_iteration(i, p) THEN 0
    ELSE 1 + IterCalls(i, FieldEnd(output_cols[i], p) + 1)

\* some next_field call of that loop finds no 0x00 up to the end of the
\* buffer and scans past output_len
RECURSIVE IterOverruns(_, _)
IterOverruns(i, p) ==
    IF finished_iteration(i, p) THEN FALSE
    ELSE \/ FieldEnd(output_cols[i], p) = Len(output_cols[i])
         \/ IterOverruns(i, FieldEnd(output_cols[i], p) + 1)

\* C11: after tokenize (data mode) returns NO_ERROR, iterating any column
\* with start_iteration / finished_iteration / next_field makes exactly
\* num_rows next_field calls and never scans past output_len (calls that made
\* no out-of-bounds access).
C11_IterationYieldsNumRows ==
    (Returned /\ ~header /\ ret = NO_ERROR /\ ub = {}) =>
        \A i \in 1..num_cols :
            IterCalls(i, 0) = num_rows /\ ~IterOverruns(i, 0)

\* ---------------------------------------------------------------- row limit
\* the step works on a line terminator at the cursor: a '\n' of the input
\* (alone or after '\r'), a lone '\r' handed back by CARRIAGE_RETURN, or
\* the synthetic '\n' at offset source_len
AtTerminator ==
    /\ Fetch(Cur) = LF
    /\ \/ source_pos = Len(source)
       \/ parse_newline /\ source[source_pos + 1] = CR
       \/ ~parse_newline /\ source[source_pos + 1] = LF

\* a data-mode step that counts a row
RowCounted == pc = "running" /\ ~header /\ num_rows' # num_rows

\* C12: in data mode with end >= 0 num_rows never exceeds end; with end = 0
\* tokenize returns NO_ERROR at once with the cursor unmoved; with end > 0
\* it returns NO_ERROR in the very step that completes row number end, with
\* the cursor on the first byte after that row's line terminator, and
\* otherwise (and always with end = -1) only when the cursor has reached
\* source_len + 1 or with an error code.
C12_RowLimit ==
    [][/\ (end' >= 0 /\ pc' \in {"running", "returned"}) => num_rows' <= end'
       /\ (pc = "idle" /\ end' = 0) =>
              (pc' = "returned" /\ ret' = NO_ERROR /\ source_pos' = source_pos)
       /\ RowCounted =>
              /\ num_rows' = num_rows + 1
              /\ AtTerminator
              /\ IF num_rows' = end
                 THEN pc' = "returned" /\ ret' = NO_ERROR
                      /\ source_pos' = source_pos + 1
                 ELSE pc' = "running"
       /\ (pc = "running" /\ ~header /\ pc' = "returned" /\ ret' = NO_ERROR) =>
              \/ RowCounted /\ num_rows' = end
              \/ source_pos = Len(source) + 1 /\ UNCHANGED num_rows
                    /\ (end = -1 \/ num_rows < end)]_vars

\* the call stopped after its one row with input left to read
C12_Witness ==
    /\ Returned /\ ~header /\ ret = NO_ERROR
    /\ end = 1 /\ num_rows = 1
    /\ source_pos < Len(source)

\* ---------------------------------------------------------------- skip_lines at end of input
\* C13: a skip_lines call with offset > 0 that finds the input ended
\* (source_pos >= source_len) before offset lines were counted returns in
\* that step, with INVALID_LINE returned and stored in code when header is
\* true and NO_ERROR returned and stored in code when header is false; a
\* call with offset <= 0 returns NO_ERROR with source_pos as it was at the
\* call; and INVALID_LINE is returned in no other situation.
C13_SkipEndOfInput ==
    [][/\ (pc = "skipping" /\ offset > 0 /\ skip_i < offset
            /\ source_pos >= Len(source)) =>
              /\ pc' = "skipped"
              /\ ret' = (IF header THEN INVALID_LINE ELSE NO_ERROR)
              /\ code' = ret'
              /\ UNCHANGED source_pos
       /\ (pc = "skipping" /\ offset <= 0) =>
              /\ pc' = "skipped"
              /\ ret' = NO_ERROR /\ code' = NO_ERROR
              /\ source_pos' = start_pos
       /\ (pc' = "skipped" /\ ret' = INVALID_LINE) =>
              (header /\ skip_i < offset /\ source_pos >= Len(source))]_vars

\* a header call that counted one line of two before the input ended
C13_Witness ==
    /\ pc = "skipped" /\ header /\ offset = 2 /\ skip_i = 1
    /\ ret = INVALID_LINE /\ code = INVALID_LINE
    /\ source_pos = Len(source) /\ source_pos > start_pos

\* ---------------------------------------------------------------- skip_lines line counting
\* the first offset at or after p whose byte is '\r' or '\n' (Len(src) if none)
RECURSIVE TermAt(_, _)
TermAt(src, p) ==
    IF p < Len(src) /\ src[p + 1] \notin {CR, LF} THEN TermAt(src, p + 1) ELSE p

\* the length of the line terminator at offset p: 2 for "\r\n", else 1
TermLen(src, p) ==
    IF src[p + 1] = CR /\ p + 1 < Len(src) /\ src[p + 2] = LF THEN 2 ELSE 1

\* the line counts: it has a significant byte (any byte when ws, else any
\* byte other than space and tab) and the first of them is not the comment
\* character cm
CountedLine(line, ws, cm) ==
    \E k \in DOMAIN line :
        /\ ws \/ line[k] \notin WS
        /\ \A j \in 1..(k - 1) : ~ws /\ line[j] \in WS
        /\ ~(cm # NUL /\ line[k] = cm)

\* the offset just after the terminator of the n-th counted line at or after
\* offset p, or -1 when the input holds fewer than n terminated counted lines
RECURSIVE AfterCounted(_, _, _, _, _)
AfterCounted(src, p, n, ws, cm) ==
    IF n <= 0 THEN p
    ELSE IF TermAt(src, p) = Len(src) THEN -1
    ELSE AfterCounted(src, TermAt(src, p) + TermLen(src, TermAt(src, p)),
                      IF CountedLine(SubSeq(src, p + 1, TermAt(src, p)), ws, cm)
                      THEN n - 1 ELSE n,
                      ws, cm)

\* a returned call with offset > 0 stopped where counting with whitespace
\* significance ws says
SkippedAsCounted(ws) ==
    \A e \in {AfterCounted(source, start_pos, offset, ws, comment)} :
        IF e = -1
        THEN source_pos = Len(source)
             /\ ret = (IF header THEN INVALID_LINE ELSE NO_ERROR)
        ELSE source_pos = e /\ ret = NO_ERROR

Rank ==
    4 * (Len(source) + 1 - source_pos)
        + (IF state = CARRIAGE_RETURN THEN 2 ELSE IF parse_newline THEN -3 ELSE 0)

\* the step leaves the call running, nearer to the end of its loop
Nearer == pc' = "running" /\ Rank' < Rank /\ Rank' >= 0

\* the cursor moved back in the step
SteppedBack == pc = "running" /\ pc' = "running" /\ source_pos' < source_pos

\* every iteration returns, faults on an out-of-bounds access, or lowers Rank
LoopStepsNearEnd ==
    [][pc = "running" => (Nearer \/ pc' \in {"returned", "fault"})]_vars

\* C15: every tokenize call returns (NO_ERROR or an error code) after
\* finitely many iterations, whatever the input, the configuration and
\* end / header / num_cols: each iteration either returns or leaves the call
\* running with a smaller non-negative Rank, also when the cursor is stepped
\* back in CARRIAGE_RETURN or restored after the START_FIELD backtracking.
C15_TokenizeReturns ==
    [][pc = "running" => (Nearer \/ pc' = "returned")]_vars

\* ---------------------------------------------------------------- to_double
HasDigit(s) == \E k \in DOMAIN s : isdigit(s[k])

OnlyDigits(s) == s # <<>> /\ \A k \in DOMAIN s : isdigit(s[k])

EndsWithLetter(s) == s # <<>> /\ s[Len(s)] = LETTER

\* C16: with either converter str_to_double returns with code
\* CONVERSION_ERROR for a string without any digit and for a string that
\* ends in a byte that is no part of a number and no whitespace, and the
\* code it assigns depends on the string alone: a string of a few digits
\* gets no code, whatever was converted before.
C16_ConversionCodeFromString ==
    (pc \in {"converted", "fault"}) =>
        /\ pc = "converted"
        /\ (~HasDigit(str) \/ EndsWithLetter(str)) =>
               (assigned = CONVERSION_ERROR /\ code = CONVERSION_ERROR)
        /\ OnlyDigits(str) => assigned = "none"

\* ---------------------------------------------------------------- quoted fields
QuotedStates == {START_QUOTED_FIELD, QUOTED_FIELD, QUOTED_FIELD_NEWLINE}

\* an iteration that starts between an opening quote and its closing quote
\* and makes no out-of-bounds access
QuotedStep ==
    /\ pc = "running" /\ InLoop(Cur) /\ state \in QuotedStates
    /\ pc' # "fault"

\* the iteration appends byte c to the current column and nothing else to
\* any column
Appends(c) ==
    /\ col_ptrs' = [col_ptrs EXCEPT ![col + 1] = @ + 1]
    /\ output_cols'[col + 1][col_ptrs[col + 1] + 1] = c
    /\ \A i \in 1..num_cols : IsPrefix(Used(i), output_cols'[i])

\* the iteration neither ends the field or the row nor starts a comment
StaysQuoted ==
    /\ pc' = "running" /\ col' = col /\ num_rows' = num_rows
    /\ state' \in QuotedStates \cup {CARRIAGE_RETURN}

\* a space or tab that the quoted states drop: directly after the opening
\* quote under strip_whitespace_fields, at the start of a continuation line
\* under strip_whitespace_lines
DroppedInQuotes(c) ==
    /\ c \in WS
    /\ \/ state = START_QUOTED_FIELD /\ strip_whitespace_fields
       \/ state = QUOTED_FIELD_NEWLINE /\ strip_whitespace_lines

\* a line break inside the quotes: nothing is written, no row is counted
BreakInQuotes ==
    /\ UNCHANGED <<output_cols, col_ptrs, output_len, num_rows, col>>
    /\ pc' = "running"

\* the iteration that returns from CARRIAGE_RETURN into a quoted state
BackToQuotes ==
    /\ pc = "running" /\ InLoop(Cur) /\ state = CARRIAGE_RETURN
    /\ old_state \in QuotedStates

\* the input of the example, with a for each of its letters: "a,a",a\n
QuotedExample == <<QUOTE, LETTER, COMMA, LETTER, QUOTE, COMMA, LETTER, LF>>

\* tokenize on the example with 2 columns yields one row a,a | a
ExampleHolds ==
    \A e \in {tokenize([Cur EXCEPT !.source = QuotedExample, !.delimiter = COMMA],
                        -1, FALSE, 2)} :
        /\ e.ret = NO_ERROR /\ e.num_rows = 1
        /\ UsedOf(e, 1) = <<LETTER, COMMA, LETTER, NUL>>
        /\ UsedOf(e, 2) = <<LETTER, NUL>>

\* what holds of every byte but the delimiter and the comment character
QuotedOtherBytes ==
    /\ (QuotedStep /\ Fetch(Cur) # quotechar) => StaysQuoted
    /\ (QuotedStep /\ Fetch(Cur) \in {LF, CR}) => BreakInQuotes
    /\ BackToQuotes => (BreakInQuotes /\ state' = old_state)
    /\ (QuotedStep /\ Fetch(Cur) = LF) => state' = QUOTED_FIELD_NEWLINE
    /\ (pc = "idle" /\ source_pos = 0) => ExampleHolds

EmptyQuotesStep ==
    /\ pc = "running" /\ InLoop(Cur) /\ state = START_QUOTED_FIELD
    /\ Fetch(Cur) = quotechar
    /\ col < num_cols /\ ~oob'

\* the input of the example, with a for each of its digits: a,"",a\n
EmptyQuotesExample == <<LETTER, COMMA, QUOTE, QUOTE, COMMA, LETTER, LF>>

\* C18: in START_QUOTED_FIELD the quote character (empty quotes) emits an
\* empty field (0x01 0x00) into the current column and moves the machine to
\* START_FIELD, so that the byte after it is read as a separator or line end.
C18_EmptyQuotesThenStartField ==
    [][EmptyQuotesStep =>
          /\ pc' = "running"
          /\ output_cols'[col + 1][col_ptrs'[col + 1]] = NUL
          /\ output_cols'[col + 1][col_ptrs'[col + 1] - 1] = SOH
          /\ state' = START_FIELD]_vars

\* ---------------------------------------------------------------- trailing delimiters
\* from the cursor to the end of the line there are only spaces and tabs
OnlyTrailingWhitespace ==
    \A k \in (source_pos + 1)..TermAt(source, source_pos) : source[k] \in WS

\* a data-mode iteration in START_FIELD, under strip_whitespace_lines and a
\* whitespace delimiter, when the line already has its num_cols fields and
\* only whitespace is left of it
AfterLastField ==
    /\ pc = "running" /\ InLoop(Cur) /\ ~header
    /\ strip_whitespace_lines /\ delimiter \in WS
    /\ state = START_FIELD /\ col = num_cols
    /\ ~parse_newline /\ OnlyTrailingWhitespace

\* C19: with strip_whitespace_lines on and a space or tab as delimiter, the
\* delimiter / whitespace bytes that follow the num_cols-th field of a line
\* emit no further field and raise no error, and the line end then closes
\* the row with its num_cols fields, whatever strip_whitespace_fields is.
C19_TrailingDelimitersNoField ==
    [][AfterLastField =>
          /\ ~oob' /\ pc' \in {"running", "returned"}
          /\ \A i \in 1..num_cols : Used(i) = SubSeq(output_cols'[i], 1, col_ptrs'[i])
          /\ IF Fetch(Cur) = LF
             THEN num_rows' = num_rows + 1 /\ ret' \in {"none", NO_ERROR}
             ELSE /\ UNCHANGED <<num_rows, col>>
                  /\ state' = (IF Fetch(Cur) = CR THEN CARRIAGE_RETURN ELSE START_FIELD)]_vars

\* ---------------------------------------------------------------- comment character in FIELD
\* the bytes of s after its last 0x00: the payload of the field being written
RECURSIVE FieldTail(_)
FieldTail(s) ==
    IF s = <<>> \/ s[Len(s)] = NUL THEN <<>>
    ELSE Append(FieldTail(SubSeq(s, 1, Len(s) - 1)), s[Len(s)])

\* the field being written holds only spaces and tabs so far
FieldAllWhitespace ==
    \A k \in DOMAIN FieldTail(Used(col + 1)) : FieldTail(Used(col + 1))[k] \in WS

\* an iteration of case FIELD on the comment character, inside the columns
CommentInField ==
    /\ pc = "running" /\ InLoop(Cur) /\ ~oob
    /\ state = FIELD /\ col < num_cols
    /\ comment # NUL /\ Fetch(Cur) = comment

\* C20: in state FIELD the comment character starts a comment only when
\* col == 0 and every payload byte of the current field so far is a space
\* or tab (bytes from a quoted part count as payload); otherwise it is
\* appended to the field as ordinary content.
C20_CommentInFieldRule ==
    [][CommentInField =>
          IF col = 0 /\ FieldAllWhitespace
          THEN state' = COMMENT /\ UNCHANGED <<output_cols, col_ptrs>>
          ELSE /\ state' = FIELD
               /\ SubSeq(output_cols'[col + 1], 1, col_ptrs'[col + 1]) = Append(Used(col + 1), comment)]_vars

\* ---------------------------------------------------------------- end of input
\* the input does not end with a line terminator
Unterminated == source = <<>> \/ source[Len(source)] \notin {LF, CR}

\* the finished call gave what the same call gives on the input followed by '\n'
SameWithNewline == Outcome(Cur) = Outcome(OnSource(source \o <<LF>>))

\* C21 as stated: for an input that does not end with '\n' or '\r',
\* tokenize returns the same code, num_rows and column contents as on the
\* input followed by '\n', and with end = -1 and NO_ERROR the cursor is left
\* at source_len + 1.
C21_EndOfInputIsNewline ==
    (Returned /\ calls = 1 /\ Unterminated) =>
        /\ SameWithNewline
        /\ (end = -1 /\ ret = NO_ERROR) => source_pos = Len(source) + 1

\* C21 amended: the same equivalence (compared along the outcomes in which
\* no access faults); the cursor is left at source_len + 1 by a data-mode
\* call with end = -1 and NO_ERROR, while a header-mode call stops one past
\* the end of its first non-skipped line, nowhere beyond source_len + 1.
C21_EndOfInputIsNewlineInDataMode ==
    (Returned /\ calls = 1 /\ Unterminated) =>
        /\ SameWithNewline
        /\ (end = -1 /\ ret = NO_ERROR /\ ~header) => source_pos = Len(source) + 1
        /\ (end = -1 /\ ret = NO_ERROR /\ header) => source_pos <= Len(source) + 1

\* a last line without terminator was closed as a field and a row
C21_Witness ==
    /\ Returned /\ calls = 1 /\ ub = {}
    /\ source = <<LETTER, LF, LETTER>>
    /\ ~header /\ end = -1 /\ ret = NO_ERROR
    /\ num_rows = 2 /\ Used(1) = <<LETTER, NUL, LETTER, NUL>>
    /\ source_pos = Len(source) + 1

\* ---------------------------------------------------------------- comment lines
\* the used region of every column of m
UsedCols(m) == [i \in 1..m.num_cols |-> SubSeq(m.output_cols[i], 1, m.col_ptrs[i])]

\* r and t are the same point of the same call
SamePoint(r, t) ==
    /\ r.source_pos = t.source_pos /\ r.state = t.state
    /\ r.parse_newline = t.parse_newline /\ r.old_state = t.old_state
    /\ r.col = t.col /\ r.num_rows = t.num_rows
    /\ r.col_ptrs = t.col_ptrs /\ r.output_cols = t.output_cols

\* the columns as they were when the line being read at point t began: the
\* call is replayed from r, and snap follows the columns at each iteration
\* that starts in START_LINE
RECURSIVE ColsAtLineStart(_, _, _)
ColsAtLineStart(r, snap, t) ==
    IF r.state = START_LINE
    THEN IF SamePoint(r, t) \/ r.pc # "running" \/ ~InLoop(r)
         THEN UsedCols(r)
         ELSE ColsAtLineStart(Iteration(r), UsedCols(r), t)
    ELSE IF SamePoint(r, t) \/ r.pc # "running" \/ ~InLoop(r)
         THEN snap
         ELSE ColsAtLineStart(Iteration(r), snap, t)

\* the current call at its first iteration
CallStart ==
    Call([Cur EXCEPT !.source_pos = start_pos, !.pc = "idle", !.calls = 0],
         end, header, num_cols)

LineStartCols == ColsAtLineStart(CallStart, UsedCols(CallStart), Cur)

\* an iteration that takes the machine from START_LINE, START_FIELD or
\* FIELD into COMMENT
EntersComment ==
    /\ pc = "running" /\ InLoop(Cur) /\ calls = 1
    /\ state \in {START_LINE, START_FIELD, FIELD}
    /\ pc' = "running" /\ state' = COMMENT

\* C22: when the machine enters COMMENT from START_LINE, START_FIELD or
\* FIELD, every column's content and write offset are what they were at
\* the start of that line: the comment line leaves no byte and no partial
\* row in any column.
C22_CommentLineLeavesColumns ==
    [][EntersComment =>
          [i \in 1..num_cols |-> SubSeq(output_cols'[i], 1, col_ptrs'[i])] = LineStartCols]_vars

\* ---------------------------------------------------------------- right-strip
\* the offset at which the field being written in column index i starts:
\* the byte after the previous field's 0x00, or 0
FieldStartOffset(i) == col_ptrs[i] - Len(FieldTail(Used(i)))

\* C23: with strip_whitespace_fields on, no iteration's END_FIELD reads or
\* writes below offset 0 of a column buffer, and none leaves a write
\* pointer below the start of the field that was being written, also when
\* that field is empty or holds only spaces and tabs.
C23_RightStripInsideField ==
    [][(pc = "running" /\ InLoop(Cur) /\ strip_whitespace_fields /\ "under" \notin ub) =>
          /\ "under" \notin ub'
          /\ \A i \in 1..num_cols : col_ptrs'[i] >= FieldStartOffset(i)]_vars

\* ---------------------------------------------------------------- chunks compose
\* the single data-mode call with end = -1 from where the first call started
SinglePass ==
    tokenize([Cur EXCEPT !.source_pos = prev.start_pos, !.pc = "idle", !.calls = 0],
             -1, FALSE, num_cols)

\* the used region of column index i after the first call
PrevUsed(i) == SubSeq(prev.output_cols[i], 1, prev.col_ptrs[i])

\* the second of two calls, tokenize(end = k) then tokenize(end = -1), has
\* ended, on an input whose single pass succeeds with more than k rows
AfterChunks(single) ==
    /\ ~header /\ end = -1 /\ prev.end > 0 /\ ~prev.header
    /\ single.ub = {} /\ single.ret = NO_ERROR /\ single.num_rows > prev.end

\* the two calls succeeded and their rows, one after the other, are the
\* rows of the single pass
ChunksCompose(single) ==
    /\ pc = "returned" /\ ret = NO_ERROR /\ prev.ret = NO_ERROR
    /\ prev.num_rows = prev.end
    /\ num_rows = single.num_rows - prev.end
    /\ \A i \in 1..num_cols : PrevUsed(i) \o Used(i) = UsedOf(single, i)

\* C24: when tokenize(end = -1) in data mode succeeds with N rows and
\* 0 < k < N, tokenize(end = k) followed by tokenize(end = -1) from the
\* cursor the first call left both succeed, the first with rows 1..k and
\* the second with rows k+1..N, byte for byte the fields of the single pass.
C24_ChunkedReadingComposes ==
    (calls = 2 /\ pc \in {"returned", "fault"}) =>
        \A single \in {SinglePass} : AfterChunks(single) => ChunksCompose(single)

====
